---- MODULE Spec2Model ----
(***************************************************************************)
(* A model of pga_scraper.py: the PGATourScraperFixed extraction           *)
(* operations, the test_scraper/main driver, and the pure helpers they     *)
(* rest on (JSON path extraction, table-row extraction, numeric cleaning,  *)
(* name cleaning).                                                         *)
(*                                                                         *)
(* Text is a sequence of one-character strings.  A DataFrame is the        *)
(* sequence of its rows (records); it is empty iff the sequence is empty.  *)
(* An operation is an operator from the responses of the network to an     *)
(* outcome [ret, raised, log]: its return value, whether an exception      *)
(* left it, and the events (call, get, sleep, parse, return) it produced.  *)
(***************************************************************************)
EXTENDS Naturals, Integers, Sequences, FiniteSets, TLC

VARIABLES
    pc,        \* position of the driver: "start", "test2".."test4", "save", "saved", "done", "crashed", or a pure-function stage
    log,       \* the events of the run so far, in order
    locals,    \* test_scraper's locals leaderboard, espn_data, stats, comprehensive
    results,   \* test_scraper's results dict: category -> DataFrame
    files,     \* the files written so far
    call,      \* the last operation call: operation, responses consumed, outcome
    input,     \* the argument of the pure function under study
    output     \* its result

vars == <<pc, log, locals, results, files, call, input, output>>

----------------------------------------------------------------------------
(* Bounds of the model *)

MaxPlayers == 2     \* longest list of a JSON document
MaxRows == 3        \* most rows of a table (the header row included)
MaxElems == 2       \* most table-like elements of a page
MaxTextLen == 4     \* longest enumerated value text
MaxNameLen == 5     \* longest enumerated name cell

----------------------------------------------------------------------------
(* Text *)

\* All sequences over S of length at most n.
SeqsUpTo(S, n) == UNION {[1..k -> S] : k \in 0..n}


Whitespace == {" ", "\t", "\n"}

RECURSIVE LStrip(_)
LStrip(s) == IF s # <<>> /\ Head(s) \in Whitespace THEN LStrip(Tail(s)) ELSE s

RECURSIVE RStrip(_)
RStrip(s) ==
    IF s # <<>> /\ s[Len(s)] \in Whitespace THEN RStrip(SubSeq(s, 1, Len(s) - 1)) ELSE s

\* str.strip(), and get_text(strip=True) of an element with one text node.
Strip(s) == RStrip(LStrip(s))

----------------------------------------------------------------------------
(* DataFrame *)

EmptyDF == <<>>
DataFrame(rows) == rows
IsEmpty(df) == Len(df) = 0

\* The outcome of an operation or of a step inside it.
Returned(v, events) == [log |-> events, ret |-> v, raised |-> FALSE]
Raised(events) == [log |-> events, ret |-> EmptyDF, raised |-> TRUE]

----------------------------------------------------------------------------
(* JSON values, as json.loads builds them *)

JVal(type, str, items, kv) == [type |-> type, str |-> str, items |-> items, kv |-> kv]
JStr(s) == JVal("str", s, <<>>, <<>>)
JList(xs) == JVal("list", "", xs, <<>>)
JDict(f) == JVal("dict", "", <<>>, f)
JEmptyDict == JDict(<<>>)


\* dict.get(key, '')
DictGet(v, k) == IF k \in DOMAIN v.kv THEN v.kv[k] ELSE JStr("")

\* A faulty variant of paths: the first two candidates in the wrong order.
paths_swapped ==
    << <<"props", "pageProps", "data", "leaderboard">>,
       <<"props", "pageProps", "leaderboard", "players">>,
       <<"props", "pageProps", "initialState", "leaderboard", "players">> >>

paths ==
    << <<"props", "pageProps", "leaderboard", "players">>,
       <<"props", "pageProps", "data", "leaderboard">>,
       <<"props", "pageProps", "initialState", "leaderboard", "players">> >>

\* The inner for/else loop: follow the keys of path from position i on.
RECURSIVE Navigate(_, _, _)
Navigate(current, path, i) ==
    IF i > Len(path) THEN [ok |-> TRUE, node |-> current]
    ELSE IF current.type = "dict" /\ path[i] \in DOMAIN current.kv
         THEN Navigate(current.kv[path[i]], path, i + 1)
         ELSE [ok |-> FALSE, node |-> current]

PlayerRecord(player) ==
    [player_name |-> DictGet(player, "playerName"),
     position |-> DictGet(player, "position"),
     total_score |-> DictGet(player, "totalScore"),
     score_to_par |-> DictGet(player, "scoreToPar"),
     thru |-> DictGet(player, "thru"),
     today |-> DictGet(player, "today")]

\* The loop over the list: player.get raises on an element that is no dict.
PlayersOf(list) ==
    IF \E i \in 1..Len(list) : list[i].type # "dict"
    THEN Raised(<<>>)
    ELSE Returned([i \in 1..Len(list) |-> PlayerRecord(list[i])], <<>>)

\* The outer loop over the candidate paths, from path number p on.
RECURSIVE ExtractFrom(_, _)
ExtractFrom(data, p) ==
    IF p > Len(paths) THEN Returned(<<>>, <<>>)
    ELSE LET nav == Navigate(data, paths[p], 1) IN
         IF nav.ok /\ nav.node.type = "list" THEN PlayersOf(nav.node.items)
         ELSE ExtractFrom(data, p + 1)

\* _extract_leaderboard_from_json: any exception inside gives [].
_extract_leaderboard_from_json(data) ==
    LET body == ExtractFrom(data, 1) IN
    IF body.raised THEN <<>> ELSE body.ret

----------------------------------------------------------------------------
(* JSON documents of the study of _extract_leaderboard_from_json *)

PlayerKeys == {"playerName", "position", "totalScore", "scoreToPar", "thru", "today"}
PlayerFull(n) == JDict([k \in PlayerKeys |-> JStr(k \o "-" \o n)])
PlayerPartial(n) == JDict([k \in {"playerName", "position", "nationality"} |-> JStr(k \o "-" \o n)])

ListElems == {PlayerFull("a"), PlayerPartial("b"), JStr("x")}
JLists == {JList(xs) : xs \in SeqsUpTo(ListElems, MaxPlayers)}
Leaves == JLists \cup {JStr("s"), JEmptyDict}

\* The values tried under the second and the third path.
DeepLeaves ==
    {JList(xs) : xs \in SeqsUpTo({PlayerFull("c"), PlayerPartial("d")}, 2)}
    \cup {JList(<<PlayerFull("c"), JStr("y")>>), JStr("s"), JEmptyDict}

\* A dict holding key k with each of the values vs, and the forms in which k is missing.
Under(k, vs) == {JStr("n"), JEmptyDict} \cup {JDict(k :> v) : v \in vs}
Absent == JVal("absent", "", <<>>, <<>>)
WithKeys(f) == JDict([k \in {k \in DOMAIN f : f[k] # Absent} |-> f[k]])

PagePropsDocs ==
    {WithKeys("leaderboard" :> a @@ "data" :> b @@ "initialState" :> c) :
        a \in {Absent} \cup JLists \cup Under("players", Leaves),
        b \in {Absent} \cup Under("leaderboard", DeepLeaves),
        c \in {Absent} \cup Under("leaderboard", Under("players", DeepLeaves))}

JsonDocs ==
    {JStr("doc"), JList(<<PlayerFull("a")>>), JEmptyDict, JDict("props" :> JStr("p")),
     JDict("props" :> JEmptyDict), JDict("props" :> JDict("pageProps" :> JList(<<>>)))}
    \cup {JDict("props" :> JDict("pageProps" :> d)) : d \in PagePropsDocs}

----------------------------------------------------------------------------
(* Parsed markup.  A page is what BeautifulSoup makes of a response body:   *)
(* the __NEXT_DATA__ script tag and the table-like elements in document     *)
(* order.  An element carries its tag, its class attribute ("" when it has  *)
(* none), whether some string in it matches (Player|Position|Score), and    *)
(* its rows as find_all('tr') lists them, each row being the texts of its   *)
(* cells as find_all(['td', 'th']) lists them.                              *)

Element(tag, cls, kw, rows) == [rows |-> rows, tag |-> tag, cls |-> cls, kw |-> kw]

\* The class attributes that contain the given text (Python's `in` on the attribute).
ClassesContaining(sub) ==
    CASE sub = "leaderboard" -> {"leaderboard", "leaderboard-table"}
      [] sub = "table" -> {"table", "leaderboard-table", "stats-table"}
      [] sub = "leaderboard-table" -> {"leaderboard-table"}
      [] sub = "stats" -> {"stats-table", "Stats"}      \* after str(x).lower()
      [] OTHER -> {sub}

\* lambda x: x and class_name in x
ClassMatches(cls, class_name) == cls # "" /\ cls \in ClassesContaining(class_name)

\* soup.find: the first of the indexes found, 0 for None.
FirstIndex(found) == IF found = {} THEN 0 ELSE CHOOSE i \in found : \A j \in found : i <= j

table_classes == <<"leaderboard", "table", "leaderboard-table">>

\* The loop over table_classes, from class number c on: the first class that finds a table.
RECURSIVE FindByClass(_, _)
FindByClass(elems, c) ==
    IF c > Len(table_classes) THEN 0
    ELSE LET IsIt(e) == e.tag = "table" /\ ClassMatches(e.cls, table_classes[c])
             found == FirstIndex({i \in DOMAIN elems : IsIt(elems[i])})
         IN IF found # 0 THEN found ELSE FindByClass(elems, c + 1)

\* The second search: any table holding a header keyword.
FindByKeyword(elems) ==
    LET IsIt(e) == e.tag = "table" /\ e.kw IN FirstIndex({i \in DOMAIN elems : IsIt(elems[i])})

FindLeaderboardTable(elems) ==
    LET byClass == FindByClass(elems, 1) IN
    IF byClass # 0 THEN byClass ELSE FindByKeyword(elems)

\* rows[1:]
SkipHeader(rows) == IF rows = <<>> THEN <<>> ELSE Tail(rows)

\* cols[i].get_text(strip=True), i counted from 0 as in the source; '' past the end.
CellOr(cols, i) == IF Len(cols) > i THEN Strip(cols[i + 1]) ELSE <<>>

\* A faulty variant of the test on a row: len(cols) >= 4.
HasEnoughCells_4(cols) == Len(cols) >= 4

HasEnoughCells(cols) == Len(cols) >= 3

LeaderboardRecord(cols) ==
    [player_name |-> Strip(cols[2]),
     position |-> Strip(cols[1]),
     thru |-> CellOr(cols, 3),
     today |-> CellOr(cols, 4),
     score |-> CellOr(cols, 2)]

\* The loop over the rows: one record for each row with enough cells.
RECURSIVE LeaderboardRows(_)
LeaderboardRows(rows) ==
    IF rows = <<>> THEN <<>>
    ELSE IF HasEnoughCells(Head(rows))
         THEN <<LeaderboardRecord(Head(rows))>> \o LeaderboardRows(Tail(rows))
         ELSE LeaderboardRows(Tail(rows))

\* _scrape_leaderboard_table: nothing in its body raises on parsed markup.
_scrape_leaderboard_table(soup) ==
    LET t == FindLeaderboardTable(soup.elems) IN
    IF t # 0 THEN DataFrame(LeaderboardRows(SkipHeader(soup.elems[t].rows)))
    ELSE DataFrame(<<>>)

----------------------------------------------------------------------------
(* Markup of the study of the table scan: elements of the given kinds, all  *)
(* with rows of the given cell counts, every cell with a text of its own.   *)

DigitChars == <<"0", "1", "2", "3", "4", "5", "6", "7", "8", "9">>

\* The text of cell c of row r of element e, with whitespace around it in some columns.
CellText(e, r, c) ==
    LET t == <<"e", DigitChars[e + 1], "r", DigitChars[r + 1], "c", DigitChars[c + 1]>> IN
    CASE c % 3 = 1 -> <<" ">> \o t \o <<"\n">>
      [] c % 3 = 2 -> t \o <<" ">>
      [] OTHER -> t

RowsOf(e, lens) == [r \in 1..Len(lens) |-> [c \in 1..lens[r] |-> CellText(e, r, c)]]

ElemKinds ==
    {[tag |-> "div", cls |-> "leaderboard", kw |-> TRUE],
     [tag |-> "table", cls |-> "", kw |-> FALSE],
     [tag |-> "table", cls |-> "", kw |-> TRUE],
     [tag |-> "table", cls |-> "leaderboard", kw |-> FALSE],
     [tag |-> "table", cls |-> "table", kw |-> FALSE],
     [tag |-> "table", cls |-> "Table", kw |-> FALSE]}

CellCounts == {0, 2, 3, 4, 5}

NoScript == [present |-> FALSE, kind |-> "none", doc |-> JStr("")]

ElemsOf(kinds, lens) ==
    [e \in 1..Len(kinds) |-> Element(kinds[e].tag, kinds[e].cls, kinds[e].kw, RowsOf(e, lens))]

Page(script, elems) == [items |-> <<>>, elems |-> elems, script |-> script, tournaments |-> <<>>]

\* Cell counts of the rows of a table, tried with every sequence of elements.
SampleCellCounts == {<<>>, <<3>>, <<4, 2, 3>>, <<5, 3, 5>>}

\* Sequences of elements, tried with every sequence of cell counts.
SampleKinds ==
    {<<[tag |-> "table", cls |-> "leaderboard", kw |-> FALSE]>>,
     <<[tag |-> "table", cls |-> "", kw |-> FALSE], [tag |-> "table", cls |-> "", kw |-> TRUE]>>,
     <<[tag |-> "div", cls |-> "leaderboard", kw |-> TRUE], [tag |-> "table", cls |-> "Table", kw |-> FALSE]>>}

TablePages ==
    {Page(NoScript, ElemsOf(kinds, lens)) :
        kinds \in SeqsUpTo(ElemKinds, MaxElems), lens \in SampleCellCounts}
    \cup {Page(NoScript, ElemsOf(kinds, lens)) :
        kinds \in SampleKinds, lens \in SeqsUpTo(CellCounts, MaxRows)}

----------------------------------------------------------------------------
(* Numeric cleaning of get_player_historical_stats *)

Digits == {DigitChars[i] : i \in 1..10}

Keep(text, chars) == LET Kept(c) == c \in chars IN SelectSeq(text, Kept)

\* re.sub(r'\D', '', value_text) keeps the first digit only: a faulty variant of the cleaning.
re_sub_nondigit_first(value_text) ==
    LET d == Keep(value_text, Digits) IN IF d = <<>> THEN d ELSE <<d[1]>>

\* re.sub(r'\D', '', value_text)
re_sub_nondigit(value_text) == Keep(value_text, Digits)

\* re.sub(r'[^\d.]', '', value_text)
re_sub_nondigit_nondot(value_text) == Keep(value_text, Digits \cup {"."})

\* int() of a text of digits.
RECURSIVE int(_)
int(s) == IF s = <<>> THEN 0 ELSE int(SubSeq(s, 1, Len(s) - 1)) * 10 + (CHOOSE v \in 0..9 : DigitChars[v + 1] = s[Len(s)])

\* A float is num / 10^exp with exp as small as can be, so equal values are equal records.
RECURSIVE Float(_, _)
Float(num, exp) ==
    IF exp > 0 /\ num % 10 = 0 THEN Float(num \div 10, exp - 1) ELSE [num |-> num, exp |-> exp]

\* float() accepts a text of digits and dots that has one dot at most and a digit.
IsFloatLiteral(s) == Len(Keep(s, {"."})) <= 1 /\ Keep(s, Digits) # <<>>

DotAt(s) == IF \E i \in 1..Len(s) : s[i] = "." THEN CHOOSE i \in 1..Len(s) : s[i] = "." ELSE Len(s) + 1

\* float() of a text of digits and dots: ValueError unless it is a literal.
float(s) ==
    IF IsFloatLiteral(s)
    THEN Returned(Float(int(Keep(s, Digits)), IF DotAt(s) <= Len(s) THEN Len(s) - DotAt(s) ELSE 0), <<>>)
    ELSE Raised(<<>>)

\* int(re.sub(r'\D', '', value_text) or 0)
ToInt(value_text) ==
    LET cleaned == re_sub_nondigit(value_text) IN
    IF cleaned = <<>> THEN 0 ELSE int(cleaned)

\* float(re.sub(r'[^\d.]', '', value_text) or 0)
ToFloat(value_text) ==
    LET cleaned == re_sub_nondigit_nondot(value_text) IN
    IF cleaned = <<>> THEN Returned(Float(0, 0), <<>>) ELSE float(cleaned)

\* The labels of the study and the keywords their lower-cased text contains.
LabelKeywords(label) ==
    CASE label = "Career Wins" -> {"wins"}
      [] label = "Top 10s" -> {"top 10"}
      [] label = "Official Earnings" -> {"earnings"}
      [] label = "Wins & Earnings" -> {"wins", "earnings"}
      [] label = "Top 10 Earnings" -> {"top 10", "earnings"}
      [] OTHER -> {}

Labels == {"Career Wins", "Top 10s", "Official Earnings", "Wins & Earnings", "Top 10 Earnings", "Events"}

\* A stat div: its span.label and span.value, either of which may be missing.
StatItem(has_label, label, has_value, value) ==
    [label |-> label, has_label |-> has_label, has_value |-> has_value, value |-> value]

InitialStats(player_name) ==
    [player_name |-> player_name, career_wins |-> 0, career_top10s |-> 0,
     career_earnings |-> Float(0, 0)]

\* One pass of the loop over stat_items: the stats after the item, or the exception.
StatsAfter(stats, item) ==
    IF ~(item.has_label /\ item.has_value) THEN Returned(stats, <<>>)
    ELSE LET kws == LabelKeywords(item.label)
             value_text == Strip(item.value)
         IN IF "wins" \in kws
            THEN Returned([stats EXCEPT !.career_wins = ToInt(value_text)], <<>>)
            ELSE IF "top 10" \in kws
            THEN Returned([stats EXCEPT !.career_top10s = ToInt(value_text)], <<>>)
            ELSE IF "earnings" \in kws
            THEN LET f == ToFloat(value_text) IN
                 IF f.raised THEN Raised(<<>>)
                 ELSE Returned([stats EXCEPT !.career_earnings = f.ret], <<>>)
            ELSE Returned(stats, <<>>)

\* The loop over stat_items, in order; the first exception ends it.
RECURSIVE StatsLoop(_, _)
StatsLoop(stats, items) ==
    IF items = <<>> THEN Returned(stats, <<>>)
    ELSE LET step == StatsAfter(stats, Head(items)) IN
         IF step.raised THEN step ELSE StatsLoop(step.ret, Tail(items))

\* What get_player_historical_stats makes of a fetched player page: stats, or {} on an exception.
StatsOfPage(player_name, soup) ==
    LET body == StatsLoop(InitialStats(player_name), soup.items) IN
    IF body.raised THEN <<>> ELSE body.ret


\* Value texts tried after every sequence of earlier items.
SampleTexts ==
    {<<>>, <<".">>, <<"0", "0", "7">>, <<"1", ",", "0", "9">>, <<"1", ".", "2", ".", "3">>,
     <<"1", ",", "2", "3", "4">>, <<"$", "4", "5", ".", "6", "M">>,
     <<" ", "$", "4", "5", ".", "6", "M", " ", "(", "e", "s", "t", ".", ")">>}

ValueTexts == SeqsUpTo({"0", "1", "9", ".", ","}, MaxTextLen) \cup SampleTexts

PriorItems ==
    {<<>>,
     <<StatItem(TRUE, "Career Wins", TRUE, <<"7">>)>>,
     <<StatItem(TRUE, "Official Earnings", TRUE, <<"0", ".", "5">>),
       StatItem(TRUE, "Top 10s", FALSE, <<>>)>>}

StatPage(items) == [items |-> items, elems |-> <<>>, script |-> NoScript, tournaments |-> <<>>]

StatPages ==
    {StatPage(<<StatItem(TRUE, label, TRUE, text)>>) : label \in Labels, text \in ValueTexts}
    \cup {StatPage(prior \o <<StatItem(TRUE, label, TRUE, text)>>) :
            prior \in PriorItems, label \in Labels, text \in SampleTexts}

----------------------------------------------------------------------------
(* Name cleaning of scrape_espn_leaderboard *)

UpperLetters ==
    {"A", "B", "C", "D", "E", "F", "G", "H", "I", "J", "K", "L", "M",
     "N", "O", "P", "Q", "R", "S", "T", "U", "V", "W", "X", "Y", "Z"}

\* \([A-Z]{3}\) matches at the head of s.
CodeAtHead(s) ==
    /\ Len(s) >= 5
    /\ s[1] = "(" /\ s[2] \in UpperLetters /\ s[3] \in UpperLetters /\ s[4] \in UpperLetters
    /\ s[5] = ")"

\* re.sub anchored at the end of the text: a faulty variant of the substitution.
re_sub_trailing_code(s) ==
    IF Len(s) >= 5 /\ CodeAtHead(SubSeq(s, Len(s) - 4, Len(s)))
    THEN SubSeq(s, 1, Len(s) - 5)
    ELSE s

\* re.sub(r'\([A-Z]{3}\)', '', s): every match, leftmost first, is removed.
RECURSIVE re_sub_country_code(_)
re_sub_country_code(s) ==
    IF s = <<>> THEN s
    ELSE IF CodeAtHead(s) THEN re_sub_country_code(SubSeq(s, 6, Len(s)))
    ELSE <<Head(s)>> \o re_sub_country_code(Tail(s))

\* The two lines that clean the name cell.
CleanName(cell) == Strip(re_sub_country_code(Strip(cell)))

NameChars == {"A", "a", "(", ")", " "}

\* Cells with a code and text on either side of it.
CodeCells ==
    {pre \o <<"(", "A", "A", "A", ")">> \o post :
        pre \in SeqsUpTo(NameChars, 1), post \in SeqsUpTo(NameChars \cup {"B"}, 2)}

NameCells ==
    SeqsUpTo(NameChars, MaxNameLen)
    \cup CodeCells
    \cup {<<"J", "o", "n", " ", "R", "a", "h", "m", " ", "(", "E", "S", "P", ")">>,
          <<"J", "o", "n", " ", "(", "E", "S", "P", ")", " ", "R", "a", "h", "m">>,
          <<"(", "U", "S", "A", ")", "(", "E", "S", "P", ")">>}

----------------------------------------------------------------------------
(* The network, and the events of a run *)

Delay == 1      \* delay_between_requests, the constructor's default

Url(base, arg, tail) == [base |-> base, arg |-> arg, tail |-> tail]

\* What session.get(url) may do: raise (failed), or give a status and a body.
Response(failed, status, page) == [failed |-> failed, status |-> status, page |-> page]

Event(ev, op, caller, url, failed, status, secs, empty, raised) ==
    [raised |-> raised, failed |-> failed, status |-> status, ev |-> ev, op |-> op,
     caller |-> caller, url |-> url, secs |-> secs, empty |-> empty]

NoUrl == Url("", <<>>, "")

EvCall(op) == Event("call", op, "", NoUrl, FALSE, 0, 0, FALSE, FALSE)
EvGet(op, url, r) == Event("get", op, "", url, r.failed, r.status, 0, FALSE, FALSE)
EvSleep(op) == Event("sleep", op, "", NoUrl, FALSE, 0, Delay, FALSE, FALSE)
EvParse(op) == Event("parse", op, "", NoUrl, FALSE, 0, 0, FALSE, FALSE)
EvReturn(op, out) ==
    Event("return", op, "", NoUrl, FALSE, 0, 0, ~out.raised /\ out.ret = <<>>, out.raised)

\* response = self.session.get(url); time.sleep(self.delay): no sleep when get raises.
Fetch(op, url, r) ==
    IF r.failed THEN Raised(<<EvGet(op, url, r)>>)
    ELSE Returned(r, <<EvGet(op, url, r), EvSleep(op)>>)

\* A faulty variant of the status test: any response counts as a success.
StatusOk_any(r) == TRUE

\* if response.status_code == 200
StatusOk(r) == r.status = 200

\* except Exception: return the empty value.
Catch(out, empty) == IF out.raised THEN Returned(empty, out.log) ELSE out

\* A call of op with the given outcome of its body: the events it adds around it.
Framed(op, out) ==
    [log |-> <<EvCall(op)>> \o out.log \o <<EvReturn(op, out)>>, ret |-> out.ret,
     raised |-> out.raised]

----------------------------------------------------------------------------
(* get_current_leaderboard *)


\* json.loads(script_tag.string): TypeError on None, JSONDecodeError on text that is no JSON.
json_loads(script) ==
    IF script.kind = "json" THEN Returned(script.doc, <<>>) ELSE Raised(<<>>)

get_current_leaderboard_body(r) ==
    LET op == "get_current_leaderboard"
        f == Fetch(op, Url("https://www.pgatour.com/leaderboard", <<>>, ""), r)
    IN IF f.raised THEN Raised(f.log)
       ELSE IF StatusOk(r)
       THEN LET soup == r.page
                events == f.log \o <<EvParse(op)>>
            IN IF soup.script.present
               THEN LET data == json_loads(soup.script) IN
                    IF data.raised THEN Raised(events)
                    ELSE LET leaderboard_data == _extract_leaderboard_from_json(data.ret) IN
                         IF leaderboard_data # <<>>
                         THEN Returned(DataFrame(leaderboard_data), events)
                         ELSE Returned(_scrape_leaderboard_table(soup), events)
               ELSE Returned(_scrape_leaderboard_table(soup), events)
       ELSE Returned(EmptyDF, f.log)

\* A faulty variant: the body without its except clause.
get_current_leaderboard_uncaught(r) ==
    Framed("get_current_leaderboard", get_current_leaderboard_body(r))

get_current_leaderboard(r) ==
    Framed("get_current_leaderboard", Catch(get_current_leaderboard_body(r), EmptyDF))

----------------------------------------------------------------------------
(* scrape_player_stats_page *)

StatsTopRows == 50

stat_urls(stat_type) ==
    CASE stat_type = "ROTO_STANDINGS" -> Url("https://www.pgatour.com/stats/detail/02675", <<>>, "")
      [] stat_type = "DRIVING" -> Url("https://www.pgatour.com/stats/detail/101", <<>>, "")
      [] stat_type = "PUTTING" -> Url("https://www.pgatour.com/stats/detail/02676", <<>>, "")
      [] OTHER -> Url("https://www.pgatour.com/stats", <<>>, "")

FindStatsTable(elems) ==
    LET IsStats(e) == e.tag = "table" /\ ClassMatches(e.cls, "stats")
        IsTable(e) == e.tag = "table"
        byClass == FirstIndex({i \in DOMAIN elems : IsStats(elems[i])})
    IN IF byClass # 0 THEN byClass ELSE FirstIndex({i \in DOMAIN elems : IsTable(elems[i])})

StatsRecord(cols) ==
    [player_name |-> Strip(cols[2]),
     value |-> Strip(cols[3]),
     rank |-> Strip(cols[1]),
     rounds |-> CellOr(cols, 3)]

RECURSIVE StatsRows(_)
StatsRows(rows) ==
    IF rows = <<>> THEN <<>>
    ELSE IF HasEnoughCells(Head(rows))
         THEN <<StatsRecord(Head(rows))>> \o StatsRows(Tail(rows))
         ELSE StatsRows(Tail(rows))

\* rows[:50]
TopRows(rows) == SubSeq(rows, 1, IF Len(rows) <= StatsTopRows THEN Len(rows) ELSE StatsTopRows)

scrape_player_stats_page_body(stat_type, r) ==
    LET op == "scrape_player_stats_page"
        f == Fetch(op, stat_urls(stat_type), r)
    IN IF f.raised THEN Raised(f.log)
       ELSE IF StatusOk(r)
       THEN LET soup == r.page
                events == f.log \o <<EvParse(op)>>
                t == FindStatsTable(soup.elems)
            IN IF t # 0
               THEN Returned(DataFrame(StatsRows(TopRows(SkipHeader(soup.elems[t].rows)))), events)
               ELSE Returned(EmptyDF, events)
       ELSE Returned(EmptyDF, f.log)

scrape_player_stats_page(stat_type, r) ==
    Framed("scrape_player_stats_page", Catch(scrape_player_stats_page_body(stat_type, r), EmptyDF))

----------------------------------------------------------------------------
(* scrape_espn_leaderboard *)


FindEspnLeaderboard(elems) ==
    LET IsResponsive(e) == e.tag = "div" /\ e.cls = "ResponsiveTable"
        IsTable(e) == e.tag = "table" /\ e.cls = "Table"
        div == FirstIndex({i \in DOMAIN elems : IsResponsive(elems[i])})
    IN IF div # 0 THEN div ELSE FirstIndex({i \in DOMAIN elems : IsTable(elems[i])})

EspnRecord(cols) ==
    [player_name |-> CleanName(cols[2]),
     position |-> Strip(cols[1]),
     thru |-> CellOr(cols, 3),
     today |-> CellOr(cols, 4),
     score |-> Strip(cols[3]),
     r1 |-> CellOr(cols, 5),
     r2 |-> CellOr(cols, 6),
     r3 |-> CellOr(cols, 7),
     r4 |-> CellOr(cols, 8)]

RECURSIVE EspnRows(_)
EspnRows(rows) ==
    IF rows = <<>> THEN <<>>
    ELSE IF HasEnoughCells(Head(rows))
         THEN <<EspnRecord(Head(rows))>> \o EspnRows(Tail(rows))
         ELSE EspnRows(Tail(rows))

scrape_espn_leaderboard_body(r) ==
    LET op == "scrape_espn_leaderboard"
        f == Fetch(op, Url("https://www.espn.com/golf/leaderboard", <<>>, ""), r)
    IN IF f.raised THEN Raised(f.log)
       ELSE IF StatusOk(r)
       THEN LET soup == r.page
                events == f.log \o <<EvParse(op)>>
                t == FindEspnLeaderboard(soup.elems)
            IN IF t # 0
               THEN Returned(DataFrame(EspnRows(SkipHeader(soup.elems[t].rows))), events)
               ELSE Returned(DataFrame(<<>>), events)
       ELSE Returned(EmptyDF, f.log)

scrape_espn_leaderboard(r) ==
    Framed("scrape_espn_leaderboard", Catch(scrape_espn_leaderboard_body(r), EmptyDF))

----------------------------------------------------------------------------
(* get_player_historical_stats *)

LowerChar(c) ==
    CASE c = "J" -> "j" [] c = "R" -> "r" [] c = "T" -> "t" [] c = "W" -> "w" [] OTHER -> c

\* player_name.lower().replace(' ', '-')
PlayerSlug(player_name) ==
    [i \in 1..Len(player_name) |->
        IF LowerChar(player_name[i]) = " " THEN "-" ELSE LowerChar(player_name[i])]

PlayerUrl(player_name) ==
    Url("https://www.pgatour.com/players/player.", PlayerSlug(player_name), ".html")

get_player_historical_stats_body(player_name, r) ==
    LET op == "get_player_historical_stats"
        f == Fetch(op, PlayerUrl(player_name), r)
    IN IF f.raised THEN Raised(f.log)
       ELSE IF StatusOk(r)
       THEN LET events == f.log \o <<EvParse(op)>>
                body == StatsLoop(InitialStats(player_name), r.page.items)
            IN IF body.raised THEN Raised(events) ELSE Returned(body.ret, events)
       ELSE Returned(<<>>, f.log)

get_player_historical_stats(player_name, r) ==
    Framed("get_player_historical_stats",
           Catch(get_player_historical_stats_body(player_name, r), <<>>))

----------------------------------------------------------------------------
(* scrape_historical_results *)

\* The decimal text of a natural number, as the f-string writes it.
RECURSIVE IntToText(_)
IntToText(n) ==
    IF n < 10 THEN <<DigitChars[n + 1]>> ELSE IntToText(n \div 10) \o <<DigitChars[(n % 10) + 1]>>

ScheduleUrl(year) ==
    Url("https://www.pgatour.com/tournaments/schedule.", IntToText(year), ".html")

\* A div.tournament-row: its div.winner, div.tournament-name and div.dates, each of which may be missing.
TournamentRow(has_winner, has_name, has_dates, n) ==
    [has_winner |-> has_winner, has_name |-> has_name,
     has_dates |-> has_dates, winner |-> <<" ", "w", DigitChars[n + 1]>>,
     name |-> <<"t", DigitChars[n + 1], "\n">>, dates |-> <<"d", DigitChars[n + 1]>>]

\* The loop over tournament_rows: None.get_text raises when a row with a winner has no name.
RECURSIVE TournamentsLoop(_)
TournamentsLoop(rows) ==
    IF rows = <<>> THEN Returned(<<>>, <<>>)
    ELSE LET row == Head(rows)
             rest == TournamentsLoop(Tail(rows))
         IN IF ~row.has_winner THEN rest
            ELSE IF ~row.has_name \/ rest.raised THEN Raised(<<>>)
            ELSE Returned(<<[winner |-> Strip(row.winner),
                             tournament |-> Strip(row.name),
                             date |-> IF row.has_dates THEN Strip(row.dates) ELSE <<>>]>>
                          \o rest.ret, <<>>)

scrape_historical_results_body(year, r) ==
    LET op == "scrape_historical_results"
        f == Fetch(op, ScheduleUrl(year), r)
    IN IF f.raised THEN Raised(f.log)
       ELSE IF StatusOk(r)
       THEN LET events == f.log \o <<EvParse(op)>>
                body == TournamentsLoop(r.page.tournaments)
            IN IF body.raised THEN Raised(events)
               ELSE Returned(DataFrame(body.ret), events)
       ELSE Returned(EmptyDF, f.log)

scrape_historical_results(year, r) ==
    Framed("scrape_historical_results", Catch(scrape_historical_results_body(year, r), EmptyDF))

----------------------------------------------------------------------------
(* get_comprehensive_stats *)

\* player_row.get(key, '')
RowGet(row, key) == IF key \in DOMAIN row THEN row[key] ELSE <<>>

PlayerStats(player_row) ==
    [player_name |-> player_row.player_name,
     current_position |-> RowGet(player_row, "position"),
     current_score |-> RowGet(player_row, "score"),
     strokes_gained_total |-> Float(0, 0),
     driving_distance |-> Float(290, 0),
     driving_accuracy |-> Float(60, 0),
     gir_percentage |-> Float(65, 0),
     scrambling |-> Float(55, 0),
     putting_average |-> Float(29, 0),
     world_ranking |-> 50,
     fedex_points |-> 500]

\* The events of a callee, marked as made inside get_comprehensive_stats.
Inside(events) ==
    [i \in 1..Len(events) |->
        LET e == events[i] IN
        Event(e.ev, e.op, "get_comprehensive_stats", e.url, e.failed, e.status, e.secs, e.empty, e.raised)]

\* The primary result decides whether the secondary source is asked.
NeedsSecondary(r1) ==
    LET first == get_current_leaderboard(r1) IN ~first.raised /\ IsEmpty(first.ret)

\* A faulty variant: the secondary source is asked whatever the primary gave.
get_comprehensive_stats_always_espn(r1, r2) ==
    LET first == get_current_leaderboard(r1)
        second == scrape_espn_leaderboard(r2)
    IN Framed("get_comprehensive_stats",
              Returned([i \in 1..Len(second.ret) |-> PlayerStats(second.ret[i])],
                       Inside(first.log \o second.log)))

\* No try here: an exception of a callee would leave the operation as it is.
get_comprehensive_stats(r1, r2) ==
    LET op == "get_comprehensive_stats"
        first == get_current_leaderboard(r1)
    IN IF first.raised THEN Framed(op, Raised(Inside(first.log)))
       ELSE IF IsEmpty(first.ret)
       THEN LET second == scrape_espn_leaderboard(r2) IN
            IF second.raised THEN Framed(op, Raised(Inside(first.log \o second.log)))
            ELSE Framed(op, Returned(DataFrame([i \in 1..Len(second.ret) |-> PlayerStats(second.ret[i])]),
                                     Inside(first.log \o second.log)))
       ELSE Framed(op, Returned(DataFrame([i \in 1..Len(first.ret) |-> PlayerStats(first.ret[i])]),
                                Inside(first.log)))

----------------------------------------------------------------------------
(* The responses the sources are given in the study of the operations *)

ScriptNone == [present |-> TRUE, kind |-> "none", doc |-> JStr("")]        \* <script> with children or no text
ScriptInvalid == [present |-> TRUE, kind |-> "invalid", doc |-> JStr("")]  \* text that is not JSON
ScriptJson(d) == [present |-> TRUE, kind |-> "json", doc |-> d]

PagePropsDoc(d) == JDict("props" :> JDict("pageProps" :> d))

SampleDocs ==
    {PagePropsDoc(JDict("leaderboard" :> JDict("players" :> JList(<<PlayerFull("a"), PlayerPartial("b")>>)))),
     PagePropsDoc(JDict("data" :> JDict("leaderboard" :> JList(<<>>)))),
     PagePropsDoc(JDict("leaderboard" :> JDict("players" :> JList(<<PlayerFull("a"), JStr("x")>>)))),
     PagePropsDoc(JEmptyDict),
     JList(<<>>)}

SampleScripts == {NoScript, ScriptNone, ScriptInvalid} \cup {ScriptJson(d) : d \in SampleDocs}

LeaderboardElems ==
    {<<>>,
     <<Element("table", "", FALSE, RowsOf(1, <<3, 5>>))>>,
     <<Element("table", "leaderboard", FALSE, RowsOf(1, <<3>>))>>,
     <<Element("div", "leaderboard", TRUE, RowsOf(1, <<3, 3>>)),
       Element("table", "", TRUE, RowsOf(2, <<3, 5, 2, 3>>))>>}

\* The rows of an ESPN table: the second cell of a row holds a name, with a country code in odd rows.
EspnRowsOf(e, lens) ==
    [r \in 1..Len(lens) |->
        [c \in 1..lens[r] |->
            IF c = 2
            THEN <<" ", "P", DigitChars[r + 1]>>
                 \o (IF r % 2 = 1 THEN <<" ", "(", "U", "S", "A", ")">> ELSE <<>>)
            ELSE CellText(e, r, c)]]

EspnElems ==
    {<<>>,
     <<Element("table", "leaderboard", TRUE, EspnRowsOf(1, <<3, 5>>))>>,
     <<Element("table", "Table", FALSE, EspnRowsOf(1, <<3, 2, 9>>)),
       Element("div", "ResponsiveTable", FALSE, EspnRowsOf(2, <<3, 4, 3>>))>>,
     <<Element("table", "Table", FALSE, EspnRowsOf(1, <<9>>))>>}

StatsElems ==
    {<<>>,
     <<Element("div", "stats-table", TRUE, RowsOf(1, <<3, 3>>))>>,
     <<Element("table", "Table", FALSE, RowsOf(1, <<3, 4, 2>>)),
       Element("table", "Stats", FALSE, RowsOf(2, <<3, 3, 4>>))>>,
     <<Element("table", "", FALSE, RowsOf(1, <<3, 3>>))>>}

SampleItems ==
    {<<>>,
     <<StatItem(TRUE, "Career Wins", TRUE, <<"1", "2">>),
       StatItem(TRUE, "Top 10s", TRUE, <<" ", "1", ",", "2", "3", "4">>),
       StatItem(TRUE, "Official Earnings", TRUE, <<"$", "4", "5", ".", "6", "M">>)>>,
     <<StatItem(TRUE, "Career Wins", TRUE, <<"3">>),
       StatItem(TRUE, "Official Earnings", TRUE, <<"1", ".", "2", ".", "3">>)>>,
     <<StatItem(FALSE, "", TRUE, <<"5">>), StatItem(TRUE, "Events", TRUE, <<"9">>)>>}

SampleTournaments ==
    {<<>>,
     <<TournamentRow(TRUE, TRUE, TRUE, 1), TournamentRow(FALSE, TRUE, TRUE, 2),
       TournamentRow(TRUE, TRUE, FALSE, 3)>>,
     <<TournamentRow(TRUE, TRUE, TRUE, 1), TournamentRow(TRUE, FALSE, TRUE, 2)>>}

FullPage(script, elems, items, tournaments) ==
    [items |-> items, elems |-> elems, script |-> script, tournaments |-> tournaments]

\* A body that holds data of every kind: what an error status may carry.
RichPage ==
    FullPage(ScriptJson(PagePropsDoc(JDict("leaderboard" :> JDict("players" :> JList(<<PlayerFull("a")>>))))),
             <<Element("table", "leaderboard", TRUE, RowsOf(1, <<3, 3>>)),
               Element("div", "ResponsiveTable", FALSE, EspnRowsOf(2, <<3, 3>>)),
               Element("table", "Table", FALSE, EspnRowsOf(3, <<3, 3>>))>>,
             <<StatItem(TRUE, "Career Wins", TRUE, <<"3">>)>>,
             <<TournamentRow(TRUE, TRUE, TRUE, 1)>>)

BlankPage == FullPage(NoScript, <<>>, <<>>, <<>>)


\* The transport failure, and every status other than 200 with a body full of data.
Failures ==
    {Response(TRUE, 0, BlankPage)}
    \cup {Response(FALSE, st, RichPage) : st \in {204, 404, 500}}

LeaderboardResponses ==
    Failures \cup {Response(FALSE, 200, FullPage(sc, el, <<>>, <<>>)) :
                      sc \in SampleScripts, el \in LeaderboardElems}

EspnResponses ==
    Failures \cup {Response(FALSE, 200, FullPage(NoScript, el, <<>>, <<>>)) : el \in EspnElems}

StatsResponses ==
    Failures \cup {Response(FALSE, 200, FullPage(NoScript, el, <<>>, <<>>)) : el \in StatsElems}

PlayerResponses ==
    Failures \cup {Response(FALSE, 200, FullPage(NoScript, <<>>, it, <<>>)) : it \in SampleItems}

ScheduleResponses ==
    Failures \cup {Response(FALSE, 200, FullPage(NoScript, <<>>, <<>>, t)) : t \in SampleTournaments}


----------------------------------------------------------------------------
(* The driver: a caller of single operations, or the bare invocation        *)
(* main -> test_scraper.                                                    *)

Categories == <<"pga_leaderboard", "espn_leaderboard", "stats", "comprehensive">>

Dates == <<"20240101", "20240102">>

\* f"pga_data_{name}_{datetime.now().strftime('%Y%m%d')}.csv"
FileName(name, date) == "pga_data_" \o name \o "_" \o date \o ".csv"

Call(op, args, resps, out) ==
    [ret |-> out.ret, raised |-> out.raised, op |-> op, args |-> args, resps |-> resps]

\* d[key] = value
Put(d, key, value) == [k \in DOMAIN d \cup {key} |-> IF k = key THEN value ELSE d[k]]

\* if not df.empty: results[name] = df
Store(res, name, out) ==
    IF ~out.raised /\ ~IsEmpty(out.ret) THEN Put(res, name, out.ret) ELSE res

\* The categories of results, in the order of the loop.
\* A faulty variant of the save loop: the comprehensive result is left out.
ToSave_but_last(res) ==
    LET In(c) == c \in DOMAIN res /\ ~IsEmpty(res[c]) /\ c # "comprehensive" IN SelectSeq(Categories, In)

\* for name, df in results.items(): if not df.empty
ToSave(res) ==
    LET In(c) == c \in DOMAIN res /\ ~IsEmpty(res[c]) IN SelectSeq(Categories, In)

----------------------------------------------------------------------------
\* Placeholders of the stages not in use.
Idle == [op |-> "none"]
NoValue == [kind |-> "none"]

Init ==
    /\ pc = "start"
    /\ log = <<>>
    /\ locals = <<>>
    /\ results = <<>>
    /\ files = <<>>
    /\ call = Idle
    /\ input = NoValue
    /\ output = NoValue

\* The responses a call of get_comprehensive_stats consumes.
Consumed(r1, r2) == IF NeedsSecondary(r1) THEN <<r1, r2>> ELSE <<r1>>

\* A caller calls one operation of the scraper.
Called(op, args, resps, out) ==
    /\ pc = "start"
    /\ call' = Call(op, args, resps, out)
    /\ log' = out.log
    /\ UNCHANGED <<pc, locals, results, files, input, output>>

CallGetCurrentLeaderboard ==
    \E r \in LeaderboardResponses :
        Called("get_current_leaderboard", <<>>, <<r>>, get_current_leaderboard(r))

CallScrapePlayerStatsPage ==
    \E t \in {"STATS_YEAR", "ROTO_STANDINGS", "DRIVING", "PUTTING", "OTHER"}, r \in StatsResponses :
        Called("scrape_player_stats_page", <<t>>, <<r>>, scrape_player_stats_page(t, r))

CallScrapeEspnLeaderboard ==
    \E r \in EspnResponses :
        Called("scrape_espn_leaderboard", <<>>, <<r>>, scrape_espn_leaderboard(r))

CallGetPlayerHistoricalStats ==
    \E n \in {<<"J", "o", "n", " ", "R">>, <<"T", "W">>}, r \in PlayerResponses :
        Called("get_player_historical_stats", <<n>>, <<r>>, get_player_historical_stats(n, r))

CallGetComprehensiveStats ==
    \E r1 \in LeaderboardResponses, r2 \in EspnResponses :
        Called("get_comprehensive_stats", <<>>, Consumed(r1, r2), get_comprehensive_stats(r1, r2))

CallScrapeHistoricalResults ==
    \E y \in {2023, 2024}, r \in ScheduleResponses :
        Called("scrape_historical_results", <<y>>, <<r>>, scrape_historical_results(y, r))

\* A step of test_scraper: one operation, its result kept when it is not empty.
Tested(from, to, name, op, resps, out) ==
    /\ pc = from
    /\ pc' = IF out.raised THEN "crashed" ELSE to
    /\ call' = Call(op, <<>>, resps, out)
    /\ log' = (IF from = "start" THEN <<>> ELSE log) \o out.log
    /\ locals' = IF out.raised THEN locals ELSE Put(locals, name, out.ret)
    /\ results' = Store(results, name, out)
    /\ UNCHANGED <<files, input, output>>

\* Test 1, entered from main with a fresh scraper.
Test1 ==
    \E r \in LeaderboardResponses :
        Tested("start", "test2", "pga_leaderboard", "get_current_leaderboard", <<r>>,
               get_current_leaderboard(r))

Test2 ==
    \E r \in EspnResponses :
        Tested("test2", "test3", "espn_leaderboard", "scrape_espn_leaderboard", <<r>>,
               scrape_espn_leaderboard(r))

Test3 ==
    \E r \in StatsResponses :
        Tested("test3", "test4", "stats", "scrape_player_stats_page", <<r>>,
               scrape_player_stats_page("STATS_YEAR", r))

Test4 ==
    \E r1 \in LeaderboardResponses, r2 \in EspnResponses :
        Tested("test4", "save", "comprehensive", "get_comprehensive_stats", Consumed(r1, r2),
               get_comprehensive_stats(r1, r2))

\* The loop that saves the results: one file for each, dated when it is written.
SaveResults ==
    /\ pc = "save"
    /\ \E day \in [1..Len(ToSave(results)) -> 1..Len(Dates)] :
        /\ \A i, j \in DOMAIN day : i <= j => day[i] <= day[j]
        /\ files' = [n \in {FileName(ToSave(results)[i], Dates[day[i]]) : i \in DOMAIN day} |->
                        LET i == CHOOSE i \in DOMAIN day : n = FileName(ToSave(results)[i], Dates[day[i]])
                        IN results[ToSave(results)[i]]]
    /\ pc' = "saved"
    /\ UNCHANGED <<log, locals, results, call, input, output>>

\* test_scraper returns results and main prints its closing lines.
MainReturn ==
    /\ pc = "saved"
    /\ pc' = "done"
    /\ UNCHANGED <<log, locals, results, files, call, input, output>>

Next ==
    \/ CallGetCurrentLeaderboard
    \/ CallScrapePlayerStatsPage
    \/ CallScrapeEspnLeaderboard
    \/ CallGetPlayerHistoricalStats
    \/ CallGetComprehensiveStats
    \/ CallScrapeHistoricalResults
    \/ Test1
    \/ Test2
    \/ Test3
    \/ Test4
    \/ SaveResults
    \/ MainReturn

Spec == Init /\ [][Next]_vars

InitJson ==
    /\ pc = "json"
    /\ input \in {[kind |-> "json", doc |-> d] : d \in JsonDocs}
    /\ output = NoValue
    /\ log = <<>> /\ locals = <<>> /\ results = <<>> /\ files = <<>> /\ call = Idle

ApplyExtractJson ==
    /\ pc = "json"
    /\ pc' = "json_done"
    /\ output' = [rows |-> _extract_leaderboard_from_json(input.doc), kind |-> "records"]
    /\ UNCHANGED <<log, locals, results, files, call, input>>

SpecJson == InitJson /\ [][ApplyExtractJson]_vars

InitTable ==
    /\ pc = "table"
    /\ input \in {[kind |-> "page", page |-> p] : p \in TablePages}
    /\ output = NoValue
    /\ log = <<>> /\ locals = <<>> /\ results = <<>> /\ files = <<>> /\ call = Idle

ApplyScrapeTable ==
    /\ pc = "table"
    /\ pc' = "table_done"
    /\ output' = [rows |-> _scrape_leaderboard_table(input.page), kind |-> "records"]
    /\ UNCHANGED <<log, locals, results, files, call, input>>

SpecTable == InitTable /\ [][ApplyScrapeTable]_vars

InitNum ==
    /\ pc = "num"
    /\ input \in {[kind |-> "page", page |-> p] : p \in StatPages}
    /\ output = NoValue
    /\ log = <<>> /\ locals = <<>> /\ results = <<>> /\ files = <<>> /\ call = Idle

ApplyStatsOfPage ==
    /\ pc = "num"
    /\ pc' = "num_done"
    /\ output' = [kind |-> "stats", stats |-> StatsOfPage(<<"J", "o", "n">>, input.page)]
    /\ UNCHANGED <<log, locals, results, files, call, input>>

SpecNum == InitNum /\ [][ApplyStatsOfPage]_vars

InitName ==
    /\ pc = "name"
    /\ input \in {[kind |-> "cell", cell |-> c] : c \in NameCells}
    /\ output = NoValue
    /\ log = <<>> /\ locals = <<>> /\ results = <<>> /\ files = <<>> /\ call = Idle

ApplyCleanName ==
    /\ pc = "name"
    /\ pc' = "name_done"
    /\ output' = [kind |-> "name", name |-> CleanName(input.cell)]
    /\ UNCHANGED <<log, locals, results, files, call, input>>

SpecName == InitName /\ [][ApplyCleanName]_vars

----------------------------------------------------------------------------
(* Properties of the operations and of the bare invocation (Spec) *)

Called_(op) == call.op = op
FirstResponse == call.resps[1]

\* The return that ends the frame in which event i lies.
NextReturn(i) ==
    CHOOSE k \in (i + 1)..Len(log) :
        log[k].ev = "return" /\ \A m \in (i + 1)..(k - 1) : log[m].ev # "return"

IsEspnGet(i) == log[i].ev = "get" /\ log[i].op = "scrape_espn_leaderboard"
IsPrimaryReturn(i) == log[i].ev = "return" /\ log[i].op = "get_current_leaderboard"

\* C1: whatever the sources answer, every operation returns to its caller (a
\* DataFrame or a dictionary): no call, at the top or inside another operation,
\* ends with an exception.
C1_NeverRaises ==
    /\ pc # "crashed"
    /\ call.op # "none" => ~call.raised
    /\ \A i \in DOMAIN log : log[i].ev = "return" => ~log[i].raised

\* get_comprehensive_stats returned the empty DataFrame where json.loads raised
\* on the primary page and the GET of the secondary source failed.
C1_Witness ==
    /\ Called_("get_comprehensive_stats")
    /\ Len(call.resps) = 2
    /\ ~call.resps[1].failed /\ call.resps[1].status = 200
    /\ call.resps[1].page.script.kind = "invalid"
    /\ call.resps[2].failed
    /\ ~call.raised /\ call.ret = <<>>

\* The structured extraction of a page gives no records.
StructuredFails(page) ==
    \/ ~page.script.present
    \/ page.script.kind # "json"
    \/ _extract_leaderboard_from_json(page.script.doc) = <<>>

\* C2: when the primary page comes with status 200 and the structured
\* extraction gives no records for any reason, get_current_leaderboard returns
\* what the table scan makes of the same page.
C2_TableFallback ==
    (/\ Called_("get_current_leaderboard")
     /\ ~FirstResponse.failed /\ FirstResponse.status = 200
     /\ StructuredFails(FirstResponse.page))
    => call.ret = _scrape_leaderboard_table(FirstResponse.page)

\* C3 as stated: in a bare invocation and in any call of
\* get_comprehensive_stats, the secondary source is asked only when the last
\* primary pipeline before the request gave an empty result.
C3_SecondaryOnlyAfterEmptyPrimary ==
    (pc # "start" \/ Called_("get_comprehensive_stats")) =>
        \A i \in DOMAIN log :
            IsEspnGet(i) =>
                \E j \in 1..(i - 1) :
                    /\ IsPrimaryReturn(j) /\ log[j].empty
                    /\ \A m \in (j + 1)..(i - 1) : ~IsPrimaryReturn(m)

\* C3 as amended: get_comprehensive_stats runs the primary pipeline first and
\* asks the secondary source if and only if the primary result is empty; the
\* bare invocation asks the secondary source once more, in its second step,
\* after the primary pipeline of its first step and whatever that gave.
C3_SecondaryOrder ==
    /\ \A k \in DOMAIN log :
          (log[k].ev = "call" /\ log[k].op = "get_comprehensive_stats") =>
              /\ k + 1 <= Len(log)
              /\ log[k + 1].ev = "call" /\ log[k + 1].op = "get_current_leaderboard"
    /\ \A j \in DOMAIN log :
          (IsPrimaryReturn(j) /\ log[j].caller = "get_comprehensive_stats") =>
              /\ j + 1 <= Len(log)
              /\ log[j].empty <=>
                    (log[j + 1].ev = "call" /\ log[j + 1].op = "scrape_espn_leaderboard")
    /\ \A i \in DOMAIN log :
          IsEspnGet(i) =>
              IF log[i].caller = "get_comprehensive_stats"
              THEN i > 2 /\ IsPrimaryReturn(i - 2) /\ log[i - 2].empty
                   /\ log[i - 2].caller = "get_comprehensive_stats"
              ELSE pc # "start" =>
                      \E j \in 1..(i - 1) : IsPrimaryReturn(j) /\ log[j].caller = ""

\* A bare invocation whose first step got a leaderboard, whose second step asked
\* the secondary source all the same, and whose fourth step fell back to it.
C3_Witness ==
    /\ pc = "done"
    /\ ~IsEmpty(locals["pga_leaderboard"])
    /\ \E i \in DOMAIN log : IsEspnGet(i) /\ log[i].caller = ""
    /\ \E i \in DOMAIN log : IsEspnGet(i) /\ log[i].caller = "get_comprehensive_stats"

\* C4: a GET that fails, or whose status is no 2xx, is followed by no parsing
\* of a body, and the operation that issued it returns its empty value.
C4_ErrorGivesEmpty ==
    \A i \in DOMAIN log :
        (log[i].ev = "get" /\ (log[i].failed \/ log[i].status \notin 200..299)) =>
            LET k == NextReturn(i) IN
            /\ log[k].op = log[i].op
            /\ log[k].empty
            /\ \A m \in i..k : log[m].ev # "parse"

\* get_player_historical_stats answered a 404 whose body holds stat items with {}.
C4_Witness ==
    /\ Called_("get_player_historical_stats")
    /\ ~FirstResponse.failed /\ FirstResponse.status = 404
    /\ FirstResponse.page.items # <<>>
    /\ call.ret = <<>>
    /\ \E i \in DOMAIN log : log[i].ev = "get" /\ log[i].status = 404

FileCategories == {Categories[i] : i \in DOMAIN Categories}
FileDates == {Dates[i] : i \in DOMAIN Dates}
HasFile(c) == \E d \in FileDates : FileName(c, d) \in DOMAIN files

\* The fourth step's primary page had status 200, no __NEXT_DATA__ script and
\* no table the scan locates, and the secondary source gave nothing.
NothingAnywhere ==
    /\ Called_("get_comprehensive_stats")
    /\ Len(call.resps) = 2
    /\ ~call.resps[1].failed /\ call.resps[1].status = 200
    /\ ~call.resps[1].page.script.present
    /\ FindLeaderboardTable(call.resps[1].page.elems) = 0
    /\ \E i \in DOMAIN log :
          /\ log[i].ev = "return" /\ log[i].op = "scrape_espn_leaderboard"
          /\ log[i].caller = "get_comprehensive_stats" /\ log[i].empty

\* C5: when the bare invocation has saved its results, a file
\* pga_data_<category>_<date>.csv exists for exactly the categories whose
\* extraction returned a non-empty DataFrame, it holds that DataFrame, and
\* where primary and secondary source gave nothing the comprehensive result is
\* empty and has no file.
C5_FilesForNonEmpty ==
    pc \in {"saved", "done"} =>
        /\ \A c \in FileCategories : HasFile(c) <=> ~IsEmpty(locals[c])
        /\ \A n \in DOMAIN files :
              \E c \in FileCategories, d \in FileDates :
                  n = FileName(c, d) /\ files[n] = locals[c] /\ ~IsEmpty(files[n])
        /\ NothingAnywhere => (IsEmpty(locals["comprehensive"]) /\ ~HasFile("comprehensive"))

\* A finished bare invocation in which nothing came of either leaderboard
\* source in the fourth step, while the stats page was saved.
C5_Witness ==
    /\ pc = "done"
    /\ NothingAnywhere
    /\ IsEmpty(locals["comprehensive"]) /\ ~HasFile("comprehensive")
    /\ ~IsEmpty(locals["stats"]) /\ HasFile("stats")

\* C8: every GET is followed at once by a sleep of the configured delay,
\* whatever the GET's outcome.
C8_SleepAfterEveryGet ==
    \A i \in DOMAIN log :
        log[i].ev = "get" =>
            i + 1 <= Len(log) /\ log[i + 1].ev = "sleep" /\ log[i + 1].secs = Delay

----------------------------------------------------------------------------
(* Properties of _extract_leaderboard_from_json (SpecJson) *)

\* The value under key k of a dict; Absent under anything else.
At(v, k) == IF v.type = "dict" /\ k \in DOMAIN v.kv THEN v.kv[k] ELSE Absent

Candidate1(doc) == At(At(At(At(doc, "props"), "pageProps"), "leaderboard"), "players")
Candidate2(doc) == At(At(At(At(doc, "props"), "pageProps"), "data"), "leaderboard")
Candidate3(doc) ==
    At(At(At(At(At(doc, "props"), "pageProps"), "initialState"), "leaderboard"), "players")

\* The list of the first candidate path that resolves to a list; Absent when none does.
FirstList(doc) ==
    IF Candidate1(doc).type = "list" THEN Candidate1(doc)
    ELSE IF Candidate2(doc).type = "list" THEN Candidate2(doc)
    ELSE IF Candidate3(doc).type = "list" THEN Candidate3(doc)
    ELSE Absent

FieldOf == << <<"playerName", "player_name">>, <<"position", "position">>,
              <<"totalScore", "total_score">>, <<"scoreToPar", "score_to_par">>,
              <<"thru", "thru">>, <<"today", "today">> >>

\* rec is the translation of the mapping e.
Translates(rec, e) ==
    /\ DOMAIN rec = {FieldOf[i][2] : i \in DOMAIN FieldOf}
    /\ \A i \in DOMAIN FieldOf :
          rec[FieldOf[i][2]] = IF FieldOf[i][1] \in DOMAIN e.kv THEN e.kv[FieldOf[i][1]] ELSE JStr("")

AllMappings(list) == \A i \in DOMAIN list.items : list.items[i].type = "dict"

\* C6 as stated: the result has one record for each element of the first list
\* a candidate path resolves to, in order, translated field by field; it is
\* empty when no path resolves to a list.
C6_OneRecordPerElement ==
    pc = "json_done" =>
        LET list == FirstList(input.doc) IN
        IF list = Absent THEN output.rows = <<>>
        ELSE /\ Len(output.rows) = Len(list.items)
             /\ \A i \in DOMAIN output.rows :
                   list.items[i].type = "dict" => Translates(output.rows[i], list.items[i])

\* C6 as amended: as stated when every element of that list is a mapping; a
\* list with an element that is no mapping gives the empty result.
C6_FirstListWins ==
    pc = "json_done" =>
        LET list == FirstList(input.doc) IN
        IF list = Absent \/ ~AllMappings(list) THEN output.rows = <<>>
        ELSE /\ Len(output.rows) = Len(list.items)
             /\ \A i \in DOMAIN output.rows : Translates(output.rows[i], list.items[i])

\* The first path resolves to no list, the second to a list of two mappings,
\* the third to another list: the records are those of the second.
C6_Witness ==
    /\ pc = "json_done"
    /\ Candidate1(input.doc).type = "str"
    /\ Candidate2(input.doc).type = "list" /\ AllMappings(Candidate2(input.doc))
    /\ Len(Candidate2(input.doc).items) = 2
    /\ Candidate2(input.doc).items[1] # Candidate2(input.doc).items[2]
    /\ Candidate3(input.doc).type = "list" /\ Len(Candidate3(input.doc).items) = 1
    /\ Len(output.rows) = 2
    /\ output.rows[1] # output.rows[2]

----------------------------------------------------------------------------
(* Properties of _scrape_leaderboard_table (SpecTable) *)

\* The rows after the first that have three cells or more.
DataRows(rows) == {i \in 2..Len(rows) : Len(rows[i]) >= 3}

\* The j-th of them in document order.
NthDataRow(rows, j) ==
    CHOOSE i \in DataRows(rows) : Cardinality({k \in DataRows(rows) : k <= i}) = j

TextAt(cols, n) == IF Len(cols) >= n THEN Strip(cols[n]) ELSE <<>>

\* C7: where a table is located the result has one record for each row after
\* the first that has at least 3 cells, in document order, its fields taken
\* from the cells by position; shorter rows and the first row give none.
C7_OneRecordPerDataRow ==
    pc = "table_done" =>
        LET t == FindLeaderboardTable(input.page.elems) IN
        t # 0 =>
            LET rows == input.page.elems[t].rows IN
            /\ Len(output.rows) = Cardinality(DataRows(rows))
            /\ \A j \in DOMAIN output.rows :
                  LET cols == rows[NthDataRow(rows, j)] IN
                  /\ output.rows[j].position = TextAt(cols, 1)
                  /\ output.rows[j].player_name = TextAt(cols, 2)
                  /\ output.rows[j].score = TextAt(cols, 3)
                  /\ output.rows[j].thru = TextAt(cols, 4)
                  /\ output.rows[j].today = TextAt(cols, 5)

\* The table is the second element of the page; its first row has 5 cells and
\* gives nothing, its second has 3 and its third 5.
C7_Witness ==
    /\ pc = "table_done"
    /\ FindLeaderboardTable(input.page.elems) = 2
    /\ LET rows == input.page.elems[2].rows IN
       /\ Len(rows) = 3
       /\ Len(rows[1]) = 5 /\ Len(rows[2]) = 3 /\ Len(rows[3]) = 5
    /\ Len(output.rows) = 2
    /\ output.rows[1].thru = <<>> /\ output.rows[2].today # <<>>
    /\ output.rows[1].position # output.rows[2].position

----------------------------------------------------------------------------
(* Properties of the numeric cleaning (SpecNum) *)

RECURSIVE Pow10(_)
Pow10(k) == IF k = 0 THEN 1 ELSE 10 * Pow10(k - 1)

\* The digits of a text without leading zeros; "0" when none is left.
RECURSIVE Canonical(_)
Canonical(d) ==
    IF d = <<>> THEN <<"0">>
    ELSE IF Head(d) = "0" THEN Canonical(Tail(d)) ELSE d

DigitsIn(text) == LET IsDigit(c) == c \in Digits IN SelectSeq(text, IsDigit)
DigitsAndDots(text) == LET IsOne(c) == c \in Digits \cup {"."} IN SelectSeq(text, IsOne)

CompleteItem(item) == item.has_label /\ item.has_value

\* The field an item sets, by the first keyword its label holds.
FieldSetBy(item) ==
    IF ~CompleteItem(item) THEN "none"
    ELSE IF "wins" \in LabelKeywords(item.label) THEN "career_wins"
    ELSE IF "top 10" \in LabelKeywords(item.label) THEN "career_top10s"
    ELSE IF "earnings" \in LabelKeywords(item.label) THEN "career_earnings"
    ELSE "none"

Setting(items, field) == {i \in DOMAIN items : FieldSetBy(items[i]) = field}
LastSetting(items, field) == CHOOSE i \in Setting(items, field) : \A j \in Setting(items, field) : j <= i

\* n is the integer the digits of text spell, 0 when it has none.
IsIntOf(n, text) == IntToText(n) = Canonical(DigitsIn(text))

\* A text of digits and dots that float() takes.
WellFormed(cleaned) ==
    /\ Cardinality({i \in DOMAIN cleaned : cleaned[i] = "."}) <= 1
    /\ \E i \in DOMAIN cleaned : cleaned[i] \in Digits

FractionLen(cleaned) ==
    IF \E i \in DOMAIN cleaned : cleaned[i] = "."
    THEN Len(cleaned) - (CHOOSE i \in DOMAIN cleaned : cleaned[i] = ".")
    ELSE 0

\* f is the value the decimal literal cleaned spells.
IsFloatOf(f, cleaned) ==
    /\ f.exp <= FractionLen(cleaned)
    /\ IsIntOf(f.num * Pow10(FractionLen(cleaned) - f.exp), cleaned)
    /\ (f.exp > 0 => f.num % 10 # 0)

\* Some earnings value cleans to a text that is no decimal literal.
SomeBadEarnings(items) ==
    \E i \in Setting(items, "career_earnings") :
        LET cleaned == DigitsAndDots(items[i].value) IN cleaned # <<>> /\ ~WellFormed(cleaned)

IntFieldsRight(stats, items) ==
    \A field \in {"career_wins", "career_top10s"} :
        IF Setting(items, field) = {} THEN stats[field] = 0
        ELSE IsIntOf(stats[field], items[LastSetting(items, field)].value)

EarningsRight(stats, items) ==
    IF Setting(items, "career_earnings") = {} THEN stats.career_earnings = Float(0, 0)
    ELSE LET cleaned == DigitsAndDots(items[LastSetting(items, "career_earnings")].value) IN
         IF cleaned = <<>> THEN stats.career_earnings = Float(0, 0)
         ELSE WellFormed(cleaned) => IsFloatOf(stats.career_earnings, cleaned)

\* C9 as stated: for every value text the page gives stats whose integer fields
\* are the integers their digits spell (0 without digits) and whose earnings
\* are parsed from the digits and dots of the text (0 when none remains).
C9_EveryTextParsed ==
    pc = "num_done" =>
        /\ DOMAIN output.stats # {}
        /\ IntFieldsRight(output.stats, input.page.items)
        /\ EarningsRight(output.stats, input.page.items)

\* C9 as amended: so it is unless the digits and dots of some earnings text are
\* no decimal literal (two dots, or dots alone); then float() raises and the
\* operation returns {} with none of the fields.
C9_NumericCleaning ==
    pc = "num_done" =>
        IF SomeBadEarnings(input.page.items) THEN DOMAIN output.stats = {}
        ELSE /\ DOMAIN output.stats # {}
             /\ IntFieldsRight(output.stats, input.page.items)
             /\ EarningsRight(output.stats, input.page.items)

\* Earnings "0.5" and then wins "1,09" were read: 109 wins and earnings of 5/10.
C9_Witness ==
    /\ pc = "num_done"
    /\ Len(input.page.items) = 3
    /\ input.page.items[1].value = <<"0", ".", "5">>
    /\ FieldSetBy(input.page.items[3]) = "career_wins"
    /\ input.page.items[3].value = <<"1", ",", "0", "9">>
    /\ DOMAIN output.stats # {}
    /\ output.stats.career_wins = 109
    /\ output.stats.career_earnings = [num |-> 5, exp |-> 1]

----------------------------------------------------------------------------
(* Properties of the name cleaning (SpecName) *)

\* A parenthesized three-letter upper-case code stands at position i of s.
CodeAt(s, i) ==
    /\ i + 4 <= Len(s)
    /\ s[i] = "(" /\ s[i + 4] = ")"
    /\ \A k \in (i + 1)..(i + 3) : s[k] \in UpperLetters

EndsWithCode(s) == Len(s) >= 5 /\ CodeAt(s, Len(s) - 4)

\* The positions of s that lie in no code.
Outside(s) == {p \in DOMAIN s : ~\E i \in DOMAIN s : CodeAt(s, i) /\ i <= p /\ p <= i + 4}

\* s without its codes.
WithoutCodes(s) ==
    [j \in 1..Cardinality(Outside(s)) |->
        s[CHOOSE p \in Outside(s) : Cardinality({q \in Outside(s) : q <= p}) = j]]

\* C10 as stated: a trailing code goes with the whitespace around it and the
\* rest of the name stays as it is; a name without a trailing code comes back
\* unchanged but for the whitespace around it.
C10_TrailingCodeOnly ==
    pc = "name_done" =>
        LET s == Strip(input.cell) IN
        output.name = IF EndsWithCode(s) THEN Strip(SubSeq(s, 1, Len(s) - 5)) ELSE s

\* C10 as amended: every code goes, wherever it stands in the name, and then
\* the whitespace around the name; whitespace beside a code inside the name
\* stays. So a name whose only code is trailing loses it, and a name without
\* any code comes back unchanged but for the whitespace around it.
C10_EveryCodeRemoved ==
    pc = "name_done" =>
        LET s == Strip(input.cell) IN
        /\ output.name = Strip(WithoutCodes(s))
        /\ (\A i \in DOMAIN s : ~CodeAt(s, i)) => output.name = s
        /\ (EndsWithCode(s) /\ \A i \in DOMAIN s : CodeAt(s, i) => i = Len(s) - 4)
              => output.name = Strip(SubSeq(s, 1, Len(s) - 5))

\* "Jon (ESP) Rahm": the code inside the name went, the two spaces stayed.
C10_Witness ==
    /\ pc = "name_done"
    /\ input.cell = <<"J", "o", "n", " ", "(", "E", "S", "P", ")", " ", "R", "a", "h", "m">>
    /\ output.name = <<"J", "o", "n", " ", " ", "R", "a", "h", "m">>

----------------------------------------------------------------------------
(* Properties of the records of get_comprehensive_stats (Spec) *)

\* The base leaderboard of the last call: the primary result, or the
\* secondary one where the primary was empty.
BaseLeaderboard ==
    IF Len(call.resps) = 1 THEN get_current_leaderboard(call.resps[1]).ret
    ELSE scrape_espn_leaderboard(call.resps[2]).ret

\* The scores a row of the base leaderboard carries: its score, or the total
\* score and the score to par of a row taken from the embedded JSON.
RowScores(row) ==
    IF "score" \in DOMAIN row THEN {row.score} ELSE {row.total_score, row.score_to_par}

\* C11: get_comprehensive_stats returns one record for each row of the base
\* leaderboard, in order, whose player_name, current_position and
\* current_score are the row's player name, position and score, whichever
\* path produced the base leaderboard.
C11_RowFieldsKept ==
    Called_("get_comprehensive_stats") =>
        /\ ~call.raised
        /\ Len(call.ret) = Len(BaseLeaderboard)
        /\ \A i \in DOMAIN call.ret :
              /\ call.ret[i].player_name = BaseLeaderboard[i].player_name
              /\ call.ret[i].current_position = BaseLeaderboard[i].position
              /\ call.ret[i].current_score \in RowScores(BaseLeaderboard[i])

====
